---- MODULE Spec2Model ----
(***************************************************************************)
(* Model of the bathtime repository: the serial command/response driver    *)
(* (vwrpolysci.py, PolysciController.query) and the two ramp scripts       *)
(* (vwrpolysci_cal_sweep.py and neslab_ramp_chess.py).                     *)
(*                                                                         *)
(* Text is a sequence of one-character strings.  Time is a count of clock  *)
(* ticks.  What the serial port hands back to read_until is an input: any  *)
(* text up to a bound, with or without its carriage return.                *)
(***************************************************************************)
EXTENDS Integers, Sequences, FiniteSets, TLC

VARIABLES
    script,      \* which program runs: "query", "console", "log",
                 \* "line", "cal_sweep" or "neslab"
    pc,          \* position in the program
    program,     \* states: the program table, a sequence of rows
    state_num,   \* index of the row being run (0-based, as in the source)
    state_curr,  \* dict of the row being run
    now,         \* the clock (time.time())
    time_start,  \* stopwatch origin
    time_state,  \* start time of the row being run
    tries,       \* query's local attempt counter
    data,        \* dict under construction in the polling loop
    samples,     \* rows written to the log, oldest first
    io,          \* what has crossed the serial line (observation record)
    q            \* the call exercised alone: its frame and its outcome

vars == <<script, pc, program, state_num, state_curr, now, time_start,
          time_state, tries, data, samples, io, q>>

----------------------------------------------------------------------------
(* Bounds of the model *)

\* longest reply body the port hands back when query is exercised alone
MaxLen == 3
\* most attempts one retry loop makes before the device stops refusing
MaxTries == 2
\* the clock stops advancing here
MaxTime == 3
\* most rows the log receives
MaxSamples == 2

----------------------------------------------------------------------------
(* Text *)

\* an argument that was not given (val=None)
None == <<>>

Digits == {"0", "1"}
Alphabet == Digits \cup {".", "!", "?", "R", " "}
CR == "\r"
Whitespace == {" ", CR}

RECURSIVE LStrip(_)
LStrip(s) ==
    IF s # <<>> /\ Head(s) \in Whitespace THEN LStrip(Tail(s)) ELSE s

RECURSIVE RStrip(_)
RStrip(s) ==
    IF s # <<>> /\ s[Len(s)] \in Whitespace
        THEN RStrip(SubSeq(s, 1, Len(s) - 1))
        ELSE s

\* str.strip()
Strip(s) == RStrip(LStrip(s))

\* s[:n]
Prefix(s, n) == SubSeq(s, 1, IF n < Len(s) THEN n ELSE Len(s))

\* texts over a set of characters, of length at most n
TextsUpTo(chars, n) == UNION {[1..k -> chars] : k \in 0..n}

\* the characters of n >= 0 written in decimal: str(n)
DigitChars == <<"0", "1", "2", "3", "4", "5", "6", "7", "8", "9">>

DigitVal(c) == (CHOOSE i \in 1..10 : DigitChars[i] = c) - 1

RECURSIVE IntText(_)
IntText(n) ==
    IF n < 10 THEN <<DigitChars[n + 1]>>
    ELSE IntText(n \div 10) \o <<DigitChars[(n % 10) + 1]>>

\* str.zfill(w) of a text without sign
RECURSIVE ZFill(_, _)
ZFill(s, w) == IF Len(s) >= w THEN s ELSE ZFill(<<"0">> \o s, w)

\* value of a text of decimal digits, 0 for the empty text
RECURSIVE IntOf(_)
IntOf(s) ==
    IF s = <<>> THEN 0
    ELSE 10 * IntOf(SubSeq(s, 1, Len(s) - 1)) + DigitVal(s[Len(s)])

AllDigits == {DigitChars[i] : i \in 1..10}

\* Does float(s) succeed?  Over the alphabet of the model (no sign, no
\* exponent, no letters of inf or nan) a text is a float literal exactly when
\* it is made of digits and at most one point, with at least one digit.
IsFloat(s) ==
    /\ s # <<>>
    /\ \A i \in 1..Len(s) : s[i] \in AllDigits \cup {"."}
    /\ Cardinality({i \in 1..Len(s) : s[i] = "."}) <= 1
    /\ \E i \in 1..Len(s) : s[i] \in AllDigits

\* a number m / 10^d with the trailing zeros of the fraction removed
RECURSIVE Normal(_, _)
Normal(m, d) ==
    IF d > 0 /\ m % 10 = 0 THEN Normal(m \div 10, d - 1) ELSE <<m, d>>

\* float(s) for a text that IsFloat accepts
FloatOf(s) ==
    LET dots == {i \in 1..Len(s) : s[i] = "."}
        p    == IF dots = {} THEN Len(s) + 1 ELSE CHOOSE i \in dots : TRUE
        whole == SubSeq(s, 1, p - 1)
        frac  == SubSeq(s, p + 1, Len(s))
    IN  Normal(IntOf(whole \o frac), Len(frac))

----------------------------------------------------------------------------
(* Python values that query returns *)

FloatVal(n) == [kind |-> "float", num |-> n, text |-> <<>>]
StrVal(s)   == [kind |-> "str", num |-> <<0, 0>>, text |-> s]
BoolVal(b)  == [kind |-> "bool", num |-> <<IF b THEN 1 ELSE 0, 0>>, text |-> <<>>]
NoVal       == [kind |-> "none", num |-> <<0, 0>>, text |-> <<>>]

\* bool(v)
Truthy(v) ==
    CASE v.kind = "float" -> v.num[1] # 0
      [] v.kind = "str"   -> v.text # <<>>
      [] v.kind = "bool"  -> v.num[1] # 0
      [] OTHER            -> FALSE

----------------------------------------------------------------------------
(* vwrpolysci.py: PolysciController.query *)

\* the address written as it is, without zero padding (mutant of Compose)
ComposeUnpadded(multidrop, addr, cmd, val) ==
    (IF multidrop THEN <<"@">> \o IntText(addr) ELSE <<>>)
        \o cmd
        \o (IF val = None THEN <<>> ELSE val)
        \o <<CR>>
\* the bytes query writes for one attempt
Compose(multidrop, addr, cmd, val) ==
    (IF multidrop THEN <<"@">> \o ZFill(IntText(addr), 3) ELSE <<>>)
        \o cmd
        \o (IF val = None THEN <<>> ELSE val)
        \o <<CR>>

\* the test of line 82: "or" binds less tightly than "and"
Understood(cmd, reply) ==
    \/ reply[Len(reply)] # "?"
    \/ /\ Prefix(reply, Len(cmd)) = cmd
       /\ reply[Len(reply)] = "!"

\* lines 85-91: the reply is returned whole, as a float when it casts
Cast(reply) ==
    LET retval == reply
    IN  IF Len(retval) > 0
            THEN IF IsFloat(retval) THEN FloatVal(FloatOf(retval))
                                    ELSE StrVal(retval)
            ELSE BoolVal(TRUE)

Outcome(out, val) == [out |-> out, val |-> val]

\* One pass of the persistence loop after the write, on what read_until
\* handed back: the value returned, an IndexError raised by reply[-1] on an
\* empty reply, or another pass.
QueryAttempt(cmd, persist, raw) ==
    LET reply == Strip(raw)
    IN  IF reply = <<>> THEN Outcome("raise", NoVal)
        ELSE IF Understood(cmd, reply) THEN Outcome("return", Cast(reply))
        ELSE IF persist THEN Outcome("retry", NoVal)
        ELSE Outcome("return", BoolVal(FALSE))

----------------------------------------------------------------------------
(* What the serial line can hand back *)

\* reply bodies when query is exercised alone
Bodies == TextsUpTo(Alphabet, MaxLen)

\* read_until(b'\r'): a body with its terminator, or what had arrived by the
\* deadline (nothing, or a body without terminator)
RawReplies == Bodies \cup {b \o <<CR>> : b \in Bodies}

\* The acknowledgment rule of the protocol: the reply's final character is '!'
Acknowledged(raw) ==
    LET r == Strip(raw) IN r # <<>> /\ r[Len(r)] = "!"

\* A refusal ('?' last) or a read that timed out with nothing received
NakOrTimeout(raw) ==
    LET r == Strip(raw) IN r = <<>> \/ r[Len(r)] = "?"

\* The acknowledged payload: the reply without its terminal marker
Payload(raw) == LET r == Strip(raw) IN SubSeq(r, 1, Len(r) - 1)

\* The decoding the protocol prescribes for an acknowledged payload
Decoded(p) ==
    IF IsFloat(p) THEN FloatVal(FloatOf(p))
    ELSE IF p # <<>> THEN StrVal(p)
    ELSE BoolVal(TRUE)

----------------------------------------------------------------------------
(* query exercised alone: one call, any verb, any replies *)

QueryVerbs == {<<"R", "R">>, <<"R", "T">>, <<"S", "O">>}
QueryVals == {None, <<"1">>}
\* default address of the constructor
DefaultAddr == 1

NoFrame ==
    [cmd |-> <<>>, val |-> None, persist |-> FALSE, multidrop |-> FALSE,
     reply |-> <<>>, ret |-> NoVal, wrote |-> <<>>, writes |-> 0, naks |-> 0,
     clean |-> TRUE]

\* What has crossed the serial line so far, kept for the properties:
\*   so1_acked    an SO1 (circulator on) has been answered by a reply ending
\*                in '!'
\*   so0_written  an SO0 (circulator off) has been written
\*   ss_acked     the value of the SS (setpoint) acknowledged for the row
\*                being run, or -1
\*   failed_at    where an exception left the program, or "" if none did
\*   opened       the serial port has been opened and a command written to it
\*   dropped      the keys of the dict that the handler of the polling loop
\*                has just dropped, until the next attempt starts
\*   steps        for each row of the log, the row of the table it was read under
NoIo == [so1_acked |-> FALSE, so0_written |-> FALSE, ss_acked |-> -1,
         failed_at |-> "", opened |-> FALSE, dropped |-> {},
         steps |-> <<>>]

InitQuery ==
    /\ script = "query"
    /\ pc = "q_loop"
    /\ program = <<>>
    /\ state_num = 0
    /\ state_curr = <<>>
    /\ now = 0
    /\ time_start = 0
    /\ time_state = 0
    /\ tries = 0
    /\ data = <<>>
    /\ samples = <<>>
    /\ io = NoIo
    /\ \E cmd \in QueryVerbs, val \in QueryVals, persist, multidrop \in BOOLEAN :
          q = [NoFrame EXCEPT !.cmd = cmd, !.val = val, !.persist = persist,
                              !.multidrop = multidrop]

\* One pass of the persistence loop of query (lines 63-99): write the command,
\* read one reply, then return, raise, or go round again.
QueryPass ==
    /\ script = "query"
    /\ pc = "q_loop"
    /\ \E raw \in RawReplies :
          LET o == QueryAttempt(q.cmd, q.persist, raw)
          IN  /\ o.out = "retry" => tries + 1 < MaxTries
              /\ tries' = tries + 1
              /\ q' = [q EXCEPT
                        !.wrote = Compose(q.multidrop, DefaultAddr, q.cmd, q.val),
                        !.writes = @ + 1,
                        !.reply = raw,
                        !.naks = IF Acknowledged(raw) THEN @ ELSE @ + 1,
                        !.clean = @ /\ (Acknowledged(raw) \/ NakOrTimeout(raw)),
                        !.ret = o.val]
              /\ pc' = CASE o.out = "return" -> "q_returned"
                         [] o.out = "raise"  -> "q_raised"
                         [] OTHER            -> "q_loop"
    /\ UNCHANGED <<script, program, state_num, state_curr, now, time_start,
                   time_state, data, samples, io>>

NextQuery == QueryPass

SpecQuery == InitQuery /\ [][NextQuery]_vars

----------------------------------------------------------------------------
(* Claims about query *)

QueryEnded == script = "query" /\ pc \in {"q_returned", "q_raised"}

\* C1: with persist=false, for every verb and every reply (empty, partial
\* and garbled replies included) query writes the command once, reads one
\* reply, raises nothing, and returns boolean false if and only if the reply's
\* final character is not '!'.
C1_FalseIffNotAcknowledged ==
    (QueryEnded /\ ~q.persist) =>
        /\ pc = "q_returned"
        /\ q.writes = 1
        /\ (q.ret = BoolVal(FALSE)) <=> ~Acknowledged(q.reply)

\* C2: with persist=true, after n refusals or timeouts (each a reply ending
\* in '?' or an empty reply) followed by one acknowledgment, query has not
\* returned before the acknowledgment, returns after it, and has written the
\* command exactly n + 1 times.
C2_PersistReturnsOnAck ==
    (script = "query" /\ q.persist /\ q.clean) =>
        /\ pc # "q_raised"
        /\ pc = "q_returned" =>
              /\ Acknowledged(q.reply)
              /\ q.writes = q.naks + 1

\* C3: for every acknowledged reply the value query returns is decoded from
\* the text left after stripping the terminal '!': a number if and only if
\* that text parses as a float, else the text itself when it is not empty,
\* and boolean true when it is empty.
C3_AckDecodedFromPayload ==
    (script = "query" /\ pc = "q_returned" /\ Acknowledged(q.reply)) =>
        q.ret = Decoded(Payload(q.reply))

----------------------------------------------------------------------------
(* The ramp scripts: vwrpolysci_cal_sweep.py (main) and neslab_ramp_chess.py *)

\* The two scripts run the same loop; where they differ the action says so.
\* neslab_ramp_chess.py is modelled as it runs once its __future__ import
\* (line 12, after the assignment of line 10) is moved to the top of the file.
\* A run is cut into steps at the calls of query, one pass of its loop per
\* step, so that time can pass while the program waits for a reply.

SE == <<"S", "E">>
SL == <<"S", "L">>
SH == <<"S", "H">>
SA == <<"S", "A">>
SM == <<"S", "M">>
RO == <<"R", "O">>
SO == <<"S", "O">>
SJ == <<"S", "J">>
SS == <<"S", "S">>
RT == <<"R", "T">>
RR == <<"R", "R">>

\* what read_until hands back to a command of a run: nothing (timeout), a
\* refusal, an acknowledgment with payload, and a reply cut short by the
\* deadline
RampReplies ==
    { <<>>, <<"?", CR>>, <<"1", "!", CR>>, <<"1">> }

\* what read_until hands back to a temperature read of the polling loop:
\* nothing (timeout), a refusal, and an acknowledged reading
PollReplies ==
    { <<>>, <<"?", CR>>, <<"1", "!", CR>> }

\* what the clock may read when the program starts
Epochs == {0, 1}

\* the program tables read from stdin
Row(t, h, n) == [temp_set |-> t, time |-> h, notes |-> n]
Programs ==
    { <<Row(60, 1, "a"), Row(80, 1, "b")>>,
      <<Row(80, 2, "a")>> }

\* dict.update: the keys of s are set in d
Update(d, s) ==
    [k \in (DOMAIN d) \cup (DOMAIN s) |-> IF k \in DOMAIN s THEN s[k] ELSE d[k]]

\* time.strftime("%Y%m%d %H%M%S") of the clock: minutes and seconds
Strftime(t) == <<t \div 60, t % 60>>

\* a stopwatch restarted at every row (mutant of Watch)
WatchFromRow(t, t_start, t_state) == t - t_state

\* the stopwatch reading of a sample
Watch(t, t_start, t_state) == t - t_start

\* the first row whatever the index (mutant of RowOf)
RowOfFirst(states, n) == states[1]

\* states.iloc[state_num+0].to_dict()
RowOf(states, n) == states[n + 1]

\* neslabrte.NeslabController is not among the sources: its query follows the
\* protocol as specified (acknowledged means final '!', the payload is
\* decoded, a refusal or timeout is retried in persist mode and False
\* otherwise, nothing is raised).
SpecQueryAttempt(cmd, persist, raw) ==
    IF Acknowledged(raw) THEN Outcome("return", Decoded(Payload(raw)))
    ELSE IF persist THEN Outcome("retry", NoVal)
    ELSE Outcome("return", BoolVal(FALSE))

\* one pass of the driver's query for the script that runs
Ask(cmd, persist, raw) ==
    IF script = "neslab" THEN SpecQueryAttempt(cmd, persist, raw)
    ELSE QueryAttempt(cmd, persist, raw)

\* the observation record after cmd+val was written and raw was read
Noted(cmd, val, raw) ==
    LET so1 == cmd = SO /\ val = <<"1">>
        so0 == cmd = SO /\ val = <<"0">>
        ss  == cmd = SS
    IN  [io EXCEPT
            !.so1_acked = @ \/ (so1 /\ Acknowledged(raw)),
            !.so0_written = @ \/ so0,
            !.opened = TRUE,
            !.ss_acked = IF ss /\ Acknowledged(raw) THEN IntOf(val) ELSE @]

\* A call of query from the script at position pc: one pass per step.
\* When the call returns v the program goes to position truthy if bool(v)
\* holds and to position falsy if not, and v is stored in the dict under key
\* store unless store is ""; an exception leaves the program, unless caught
\* is a position: there the handler goes on and the dict under construction
\* is dropped.
Call(cmd, val, persist, truthy, falsy, caught, store) ==
    \E raw \in IF store = "" THEN RampReplies ELSE PollReplies :
        LET o == Ask(cmd, persist, raw)
            seen == Noted(cmd, val, raw)
        IN  /\ o.out = "retry" => tries + 1 < MaxTries
            /\ tries' = IF o.out = "retry" THEN tries + 1 ELSE 0
            /\ pc' = CASE o.out = "return" ->
                              IF Truthy(o.val) THEN truthy ELSE falsy
                       [] o.out = "retry"  -> pc
                       [] caught # ""      -> caught
                       [] OTHER            -> "crashed"
            /\ io' = IF o.out = "raise" /\ caught = ""
                        THEN [seen EXCEPT !.failed_at = pc]
                        ELSE IF o.out = "raise"
                            THEN [seen EXCEPT !.dropped = DOMAIN data]
                            ELSE seen
            /\ data' = IF store = "" THEN data
                       ELSE IF o.out = "return"
                           THEN Update(data, [k \in {store} |-> o.val])
                           ELSE <<>>
            /\ UNCHANGED q

Init ==
    /\ script \in {"cal_sweep", "neslab"}
    /\ pc = "start"
    /\ program \in Programs
    /\ state_num = -1
    /\ state_curr = <<>>
    /\ now \in Epochs
    /\ time_start = 0
    /\ time_state = 0
    /\ tries = 0
    /\ data = <<>>
    /\ samples = <<>>
    /\ io = NoIo
    /\ q = NoFrame

\* the positions where the program waits: for a reply, or asleep
Waiting ==
    {"on_get", "on_set", "probe", "temp_set", "poll_int", "poll_ext", "sleep",
     "shutdown"}

\* Time passes while the program waits.  The clock is first read when the
\* stopwatch is started, so the time that passes before that is in the
\* reading the clock starts from.
Tick ==
    /\ script # "query"
    /\ pc \in Waiting
    /\ now - time_start < MaxTime
    /\ now' = now + 1
    /\ UNCHANGED <<script, pc, program, state_num, state_curr, time_start,
                   time_state, tries, data, samples, io, q>>

\* the message is printed and the program goes on (mutant of AfterStart)
AfterStartGoesOn(isatty) == "ctor"
\* if stdin.isatty(): print the error and exit(1); else the table is read,
\* the log opened and the controller constructed
AfterStart(isatty) == IF isatty THEN "exit1" ELSE "ctor"

\* the state table is read from stdin, or the program exits when stdin is a
\* terminal: then there is no table
Start ==
    /\ pc = "start"
    /\ \E isatty \in BOOLEAN :
          /\ pc' = AfterStart(isatty)
          /\ program' = IF isatty THEN <<>> ELSE program
    /\ UNCHANGED <<script, state_num, state_curr, now, time_start,
                   time_state, tries, data, samples, io, q>>

\* PolysciController.__init__: self.echo(True, persist=True)
Construct ==
    /\ pc = "ctor"
    /\ LET after == IF script = "cal_sweep" THEN "fault_lo" ELSE "t0"
       IN  Call(SE, <<"1">>, TRUE, after, after, "", "")
    /\ UNCHANGED <<script, program, state_num, state_curr, now, time_start,
                   time_state, samples>>

\* bath.fault_lo(-5), fault_hi(120), autocool(45), pump_speed(0.7), all
\* with persist=True
Initialize ==
    /\ script = "cal_sweep"
    /\ \/ /\ pc = "fault_lo"
          /\ Call(SL, <<"-", "0", "5">>, TRUE, "fault_hi", "fault_hi", "", "")
       \/ /\ pc = "fault_hi"
          /\ Call(SH, <<"1", "2", "0">>, TRUE, "autocool", "autocool", "", "")
       \/ /\ pc = "autocool"
          /\ Call(SA, <<"4", "5">>, TRUE, "pump_speed", "pump_speed", "", "")
       \/ /\ pc = "pump_speed"
          /\ Call(SM, <<"7", "0">>, TRUE, "t0", "t0", "", "")
    /\ UNCHANGED <<script, program, state_num, state_curr, now, time_start,
                   time_state, samples>>

\* time_start = time.time()
StartTimer ==
    /\ pc = "t0"
    /\ time_start' = now
    /\ pc' = IF script = "cal_sweep" THEN "on_get" ELSE "on_set"
    /\ UNCHANGED <<script, program, state_num, state_curr, now, time_state,
                   tries, data, samples, io, q>>

\* cal_sweep: the test of `while not bath.on()`, bool(query("RO"))
OnGet ==
    /\ script = "cal_sweep"
    /\ pc = "on_get"
    /\ Call(RO, None, FALSE, "probe", "on_set", "", "")
    /\ UNCHANGED <<script, program, state_num, state_curr, now, time_start,
                   time_state, samples>>

\* bath.on(1): the body of the loop in cal_sweep, a single call in neslab
OnSet ==
    /\ pc = "on_set"
    /\ LET after == IF script = "cal_sweep" THEN "on_get" ELSE "loop_head"
       IN  Call(SO, <<"1">>, FALSE, after, after, "", "")
    /\ UNCHANGED <<script, program, state_num, state_curr, now, time_start,
                   time_state, samples>>

\* cal_sweep: bath.probe_ext(0, persist=True)
Probe ==
    /\ script = "cal_sweep"
    /\ pc = "probe"
    /\ Call(SJ, <<"0">>, TRUE, "loop_head", "loop_head", "", "")
    /\ UNCHANGED <<script, program, state_num, state_curr, now, time_start,
                   time_state, samples>>

\* a loop that leaves out the last row (mutant of InRange)
InRangeButLast(n, states) == n < Len(states) - 1
\* for state_num in range(states.shape[0])
InRange(n, states) == n < Len(states)

\* the head of the for loop: the next row and its start time, or the end
LoopHead ==
    /\ pc = "loop_head"
    /\ IF InRange(state_num + 1, program)
          THEN /\ state_num' = state_num + 1
               /\ state_curr' = RowOf(program, state_num + 1)
               /\ time_state' = now
               /\ pc' = "temp_set"
               /\ io' = [io EXCEPT !.ss_acked = -1]
          ELSE /\ pc' = IF script = "cal_sweep" THEN "shutdown" ELSE "done"
               /\ UNCHANGED <<state_num, state_curr, time_state, io>>
    /\ UNCHANGED <<script, program, now, time_start, tries, data, samples, q>>

\* cal_sweep: bath.temp_set(x, persist=True);
\* neslab: while not bath.temp_set(x): pass
SetTemp ==
    /\ pc = "temp_set"
    /\ LET persist == script = "cal_sweep"
           again == IF persist THEN "poll_check" ELSE "temp_set"
       IN  Call(SS, IntText(state_curr.temp_set), persist, "poll_check", again,
                "", "")
    /\ UNCHANGED <<script, program, state_num, state_curr, now, time_start,
                   time_state, samples>>

\* a hold that ends one tick early (mutant of Holding)
HoldingShort(t, t_state, hold) == t - t_state < hold - 1
\* time.time() - time_state < state_curr["time"]
Holding(t, t_state, hold) == t - t_state < hold

\* the test of the while loop of a row
PollCheck ==
    /\ pc = "poll_check"
    /\ pc' = IF Holding(now, time_state, state_curr.time) THEN "poll_stamp"
                                                          ELSE "loop_head"
    /\ UNCHANGED <<script, program, state_num, state_curr, now, time_start,
                   time_state, tries, data, samples, io, q>>

\* the first two items of the dict display: clock and watch
PollStamp ==
    /\ pc = "poll_stamp"
    /\ Len(samples) < MaxSamples
    /\ data' = [clock |-> Strftime(now),
                watch |-> Watch(now, time_start, time_state)]
    /\ pc' = "poll_int"
    /\ io' = [io EXCEPT !.dropped = {}]
    /\ UNCHANGED <<script, program, state_num, state_curr, now, time_start,
                   time_state, tries, samples, q>>

\* the handler resumes at the read that follows (mutant of Reattempt)
ReattemptNextRead == "poll_ext"
\* except: print(traceback.format_exc()), inside while True: the dict display
\* is evaluated again from its first item
Reattempt == "poll_stamp"

\* "temp_int": bath.temp_get_int(); an exception is caught, the traceback
\* printed and the attempt started again
PollInt ==
    /\ pc = "poll_int"
    /\ Call(RT, None, FALSE, "poll_ext", "poll_ext", Reattempt, "temp_int")
    /\ UNCHANGED <<script, program, state_num, state_curr, now, time_start,
                   time_state, samples>>

\* "temp_ext": bath.temp_get_ext(), then break
PollExt ==
    /\ pc = "poll_ext"
    /\ LET after == IF script = "cal_sweep" THEN "emit" ELSE "sleep"
       IN  Call(RR, None, FALSE, after, after, Reattempt, "temp_ext")
    /\ UNCHANGED <<script, program, state_num, state_curr, now, time_start,
                   time_state, samples>>

\* neslab: time.sleep(delay)
Sleep ==
    /\ script = "neslab"
    /\ pc = "sleep"
    /\ pc' = "emit"
    /\ UNCHANGED <<script, program, state_num, state_curr, now, time_start,
                   time_state, tries, data, samples, io, q>>

\* data.update(state_curr) and the row written to the log
Emit ==
    /\ pc = "emit"
    /\ data' = Update(data, state_curr)
    /\ samples' = Append(samples, data')
    /\ io' = [io EXCEPT !.steps = Append(@, state_num)]
    /\ pc' = "poll_check"
    /\ UNCHANGED <<script, program, state_num, state_curr, now, time_start,
                   time_state, tries, q>>

\* cal_sweep: bath.on(0) after the last row
Shutdown ==
    /\ script = "cal_sweep"
    /\ pc = "shutdown"
    /\ Call(SO, <<"0">>, FALSE, "done", "done", "", "")
    /\ UNCHANGED <<script, program, state_num, state_curr, now, time_start,
                   time_state, samples>>

Next ==
    \/ Tick
    \/ Start
    \/ Construct
    \/ Initialize
    \/ StartTimer
    \/ OnGet
    \/ OnSet
    \/ Probe
    \/ LoopHead
    \/ SetTemp
    \/ PollCheck
    \/ PollStamp
    \/ PollInt
    \/ PollExt
    \/ Sleep
    \/ Emit
    \/ Shutdown

Spec == Init /\ [][Next]_vars

\* vwrpolysci_cal_sweep.py alone, on the driver of vwrpolysci.py
InitCalSweep == Init /\ script = "cal_sweep"

NextCalSweep ==
    \/ Tick
    \/ Start
    \/ Construct
    \/ Initialize
    \/ StartTimer
    \/ OnGet
    \/ OnSet
    \/ Probe
    \/ LoopHead
    \/ SetTemp
    \/ PollCheck
    \/ PollStamp
    \/ PollInt
    \/ PollExt
    \/ Emit
    \/ Shutdown

SpecCalSweep == InitCalSweep /\ [][NextCalSweep]_vars

----------------------------------------------------------------------------
(* Claims about the ramp run *)

\* the positions of the polling phase of a row
Polling == {"poll_check", "poll_stamp", "poll_int", "poll_ext", "sleep", "emit"}

\* the positions of a run where the claims say a reply is only ever retried
Retried == {"on_get", "on_set", "temp_set", "poll_int", "poll_ext"}

\* the clock reading a formatted timestamp stands for
Seconds(clock) == 60 * clock[1] + clock[2]

\* C4: in both scripts no polling read of a row is issued and no sample of
\* the row is logged before the device has acknowledged the SS command
\* carrying the row's temp_set: the run is in the polling phase of a row
\* only when that SS was answered by a reply ending in '!'.
C4_PollingOnlyAfterSetpointAck ==
    pc \in Polling => io.ss_acked = state_curr.temp_set

\* C5: in cal_sweep a read of the internal or external temperature that
\* fails (timeout, refusal) logs no sample and is retried, so no logged sample
\* holds the failure marker False as temp_int or temp_ext.
C5_NoSampleFromFailedRead ==
    script = "cal_sweep" =>
        \A i \in 1..Len(samples) :
            /\ samples[i].temp_int # BoolVal(FALSE)
            /\ samples[i].temp_ext # BoolVal(FALSE)

\* C6: once the table is read, no reply received while turning the
\* circulator on, setting a setpoint or polling ends the run: no exception
\* leaves the program there, and the run is past the loop only when the last
\* row's hold time has elapsed.
C6_RunNeverEndsEarly ==
    /\ io.failed_at \notin Retried
    /\ pc \in {"shutdown", "done"} =>
          /\ state_num = Len(program) - 1
          /\ now - time_state >= state_curr.time

\* C7: the logged samples are grouped by row in program order, and each
\* carries exactly the fields of the row that was running when it was read.
C7_SamplesFollowProgram ==
    /\ Len(io.steps) = Len(samples)
    /\ \A i \in 1..Len(samples) :
          LET row == program[io.steps[i] + 1]
          IN  /\ \A k \in DOMAIN row :
                    k \in DOMAIN samples[i] /\ samples[i][k] = row[k]
              /\ i > 1 => io.steps[i - 1] <= io.steps[i]

\* a sample of the first row followed by a sample of the second, with other
\* fields
C7_Witness ==
    /\ Len(samples) = 2
    /\ io.steps = <<0, 1>>
    /\ samples[1].temp_set = 60 /\ samples[1].notes = "a"
    /\ samples[2].temp_set = 80 /\ samples[2].notes = "b"

\* C8: the stopwatch value of the logged samples never decreases over the
\* run, within a row and across rows, and each is the time of its timestamp
\* counted from the one program start time.
C8_WatchNonDecreasing ==
    \A i \in 1..Len(samples) :
        /\ samples[i].watch = Seconds(samples[i].clock) - time_start
        /\ samples[i].watch >= 0
        /\ i > 1 => samples[i - 1].watch <= samples[i].watch

\* two samples of different rows, the second taken later, after a program
\* start that is not the origin of the clock
C8_Witness ==
    /\ Len(samples) = 2
    /\ io.steps = <<0, 1>>
    /\ time_start > 0
    /\ 0 < samples[1].watch
    /\ samples[1].watch < samples[2].watch

\* C9: a polling cycle logs one sample, for the attempt that succeeded, and
\* its clock and watch are captured at the moment of the successful read, not
\* before the read was performed: when both reads have returned, the stamp
\* of the dict is the reading of the clock.
C9_StampedAtSuccessfulRead ==
    (/\ script = "cal_sweep"
     /\ pc = "emit"
     /\ Truthy(data.temp_int)
     /\ Truthy(data.temp_ext)) =>
        /\ data.watch = now - time_start
        /\ data.clock = Strftime(now)

\* C10: the circulator-on command SO1 is retried until acknowledged, once
\* per run: no setpoint command is sent before an SO1 was acknowledged, and no
\* SO1 is sent after one was.
C10_CirculatorOnOnceBeforeFirstStep ==
    /\ pc = "temp_set" => io.so1_acked
    /\ pc = "on_set" => ~io.so1_acked

\* C13: at program end the run leaves the circulator as it is: the ramp run
\* never writes an SO command with value 0.
C13_NoShutdownCommand == ~io.so0_written

\* C13, amended: neslab_ramp_chess.py never writes SO0; vwrpolysci_cal_sweep.py
\* writes it, and only once the loop over the rows has ended, after the hold
\* time of the last row has elapsed, as the last command of the run.
C13_ShutdownOnlyAfterLastRow ==
    io.so0_written =>
        /\ script = "cal_sweep"
        /\ pc \in {"done", "crashed"}
        /\ state_num = Len(program) - 1
        /\ now - time_state >= state_curr.time
        /\ pc = "crashed" => io.failed_at = "shutdown"

\* cal_sweep has ended after two rows were logged and SO0 was written
C13_Witness ==
    /\ script = "cal_sweep"
    /\ pc = "done"
    /\ io.so0_written
    /\ Len(samples) = 2

\* C14: when stdin is a terminal there is no program table: the process
\* reports and exits with no device I/O: the port is never opened, no command
\* is written and the ramp loop is never entered.
C14_NoTableNoDeviceIo ==
    (program = <<>> /\ pc # "start") =>
        /\ pc = "exit1"
        /\ ~io.opened
        /\ io = NoIo
        /\ state_num = -1
        /\ tries = 0
        /\ samples = <<>>

\* the program has exited for want of a table, after the clock had advanced
C14_Witness ==
    /\ pc = "exit1"
    /\ program = <<>>
    /\ now > 0
    /\ ~io.opened

\* C19: a step's start time is recorded after its setpoint command is
\* acknowledged, so the hold is counted from the confirmation however long
\* the setpoint retries took: when the polling of a row begins, the start time
\* of the row is the reading of the clock.
C19_HoldCountedFromSetpointAck ==
    [][(pc = "temp_set" /\ pc' = "poll_check") => time_state' = now']_vars

\* C19, amended: a step's start time is recorded when the row is taken from
\* the table, before its setpoint command is sent, and is not changed while
\* the row runs; the polling of the row ends, and the next row's setpoint is
\* sent, only when the hold time has elapsed counted from that start time,
\* the time the setpoint retries took included.
C19_HoldCountedFromRowStart ==
    [][/\ (pc # "temp_set" /\ pc' = "temp_set") =>
               time_state' = now' /\ io'.ss_acked = -1
       /\ pc \in Polling \cup {"temp_set"} => time_state' = time_state
       /\ (pc \in Polling /\ pc' \notin Polling) =>
               /\ pc' = "loop_head"
               /\ now - time_state >= state_curr.time]_vars

\* the setpoint of the second row is sent again after a refusal, the clock
\* past the start time of the row, the first row polled and logged
C19_Witness ==
    /\ pc = "temp_set"
    /\ state_num = 1
    /\ tries = 1
    /\ now > time_state
    /\ Len(samples) >= 1

\* the four measured fields of a sample
Measured == {"clock", "watch", "temp_int", "temp_ext"}

\* C22: the clock, watch, temp_int and temp_ext of every sample come from one
\* polling attempt: an attempt starts with a new dict stamped with the
\* clock, each read that returns adds its field and leaves the others, a
\* read that raises drops the whole dict (the internal reading and the stamps
\* with it) and the attempt starts again, and the sample written holds the
\* four fields of the dict.
C22_FieldsOfOneAttempt ==
    [][/\ (pc = "poll_stamp" /\ pc' # pc) =>
              /\ pc' = "poll_int"
              /\ DOMAIN data' = {"clock", "watch"}
              /\ data'.clock = Strftime(now')
       /\ (pc = "poll_int" /\ pc' # pc) =>
              \/ /\ pc' = "poll_ext"
                 /\ DOMAIN data' = {"clock", "watch", "temp_int"}
                 /\ \A k \in {"clock", "watch"} : data'[k] = data[k]
              \/ /\ pc' = "poll_stamp"
                 /\ DOMAIN data' = {}
       /\ (pc = "poll_ext" /\ pc' # pc) =>
              \/ /\ pc' \in {"emit", "sleep"}
                 /\ DOMAIN data' = Measured
                 /\ \A k \in {"clock", "watch", "temp_int"} : data'[k] = data[k]
              \/ /\ pc' = "poll_stamp"
                 /\ DOMAIN data' = {}
       /\ \/ pc \in {"poll_int", "poll_ext", "sleep"} /\ pc' = pc
          \/ pc = "sleep" /\ pc' = "emit"
          => /\ DOMAIN data' = DOMAIN data
             /\ \A k \in DOMAIN data : data'[k] = data[k]
       /\ (pc = "emit" /\ pc' # pc) =>
              /\ Len(samples') = Len(samples) + 1
              /\ \A k \in Measured : samples'[Len(samples')][k] = data[k]]_vars

\* after a sample was logged, the external read of an attempt has raised
\* when its internal read had returned, and the dict was dropped
C22_Witness ==
    /\ pc = "poll_stamp"
    /\ io.dropped = {"clock", "watch", "temp_int"}
    /\ Len(samples) >= 1

----------------------------------------------------------------------------
(* The driver's methods called one after another on one controller, as the  *)
(* console of vwrpolytest.py calls them: the constructor, then any method.  *)
(* Here a pass of query is cut at the read, so that what is written and     *)
(* what is read are separate steps.                                         *)

\* TCal.__init__ (and its alias reset): both fields are set
TCal(slope, xcept) == [slope |-> slope, xcept |-> xcept]

\* reset = __init__
Reset(cal, slope, xcept) == TCal(slope, xcept)

\* TCal.ref2act
Ref2Act(cal, temp_ref) == (temp_ref * cal.slope) + cal.xcept

Abs(n) == IF n < 0 THEN -n ELSE n

RECURSIVE Gcd(_, _)
Gcd(a, b) == IF b = 0 THEN a ELSE Gcd(b, a % b)

\* the number n / d, d # 0, in lowest terms with a positive denominator:
\* the value of Python's true division of two integers
TrueDiv(n, d) ==
    LET g == Gcd(Abs(n), Abs(d))
        s == IF d < 0 THEN -1 ELSE 1
    IN  <<(s * n) \div g, (s * d) \div g>>

\* act2ref dividing without taking the intercept off (mutant of Act2Ref)
Act2RefKeepsIntercept(cal, temp_act) == TrueDiv(temp_act, cal.slope)
\* TCal.act2ref; the caller sees ZeroDivisionError when the slope is 0
Act2Ref(cal, temp_act) == TrueDiv(temp_act - cal.xcept, cal.slope)

\* round(x) of Python 3 for x = n / d, d > 0: to the nearest integer, a tie to
\* the even one
Round(n, d) ==
    LET lo == n \div d
        r  == n % d
    IN  IF 2 * r < d THEN lo
        ELSE IF 2 * r > d THEN lo + 1
        ELSE IF lo % 2 = 0 THEN lo ELSE lo + 1

\* pump_speed, lines 146-149: the integer sent for a speed of spd thousandths
\* (spd / 1000 is the float given)
PumpValue(spd) ==
    IF spd > 1000 THEN 1
    ELSE IF spd < 0 THEN 0
    ELSE (100 * Round(20 * spd, 1000)) \div 20

\* the speeds the console is given, in thousandths: below 0, 0, a tie of the
\* rounding, 0.37, 1, and two above 1
Speeds == {-100, 0, 25, 370, 1000, 1200, 2000}

RM == <<"R", "M">>

\* the addresses a controller is constructed with
Addrs == {1, 12}
\* slopes and intercepts the calibrations are reset to, and reference
\* temperatures
Slopes == {-2, 0, 3}
Xcepts == {1}
Temps == {-1, 2}

\* where the retry of the persistence loop resumes without writing again
\* (mutant of RetryAt)
RetryAtRead == "q_read"
\* the persistence loop starts over at the write (line 63)
RetryAt == "q_write"

\* The controller and the call in progress:
\*   multidrop, addr   the constructor's arguments
\*   cal_int, cal_ext  the two calibrations
\*   built             the constructor has returned
\*   method            the method called last
\*   cmd, val, persist the arguments of its call of query
\*   first             the bytes of the first attempt of that call
\*   wrote             the bytes of its last attempt
\*   pending           commands written whose reply has not been read for
\*   se_acked          an SE1 has been answered by a reply ending in '!'
\*   result            what the method returned
\*   raised            the exception that left the method, or ""
\*   arg, back         a temperature and act2ref(ref2act(arg))
Controller(multidrop, addr) ==
    [multidrop |-> multidrop, addr |-> addr,
     cal_int |-> TCal(1, 0), cal_ext |-> TCal(1, 0),
     built |-> FALSE, method |-> "__init__",
     cmd |-> SE, val |-> <<"1">>, persist |-> TRUE,
     first |-> <<>>, wrote |-> <<>>, pending |-> 0, se_acked |-> FALSE,
     result |-> NoVal, raised |-> "", arg |-> 0, back |-> <<0, 1>>]

\* PolysciController.__init__ up to its call of echo(True, persist=True)
InitConsole ==
    /\ script = "console"
    /\ pc = "q_write"
    /\ program = <<>>
    /\ state_num = 0
    /\ state_curr = <<>>
    /\ now = 0
    /\ time_start = 0
    /\ time_state = 0
    /\ tries = 0
    /\ data = <<>>
    /\ samples = <<>>
    /\ io = NoIo
    /\ \E multidrop \in BOOLEAN, addr \in Addrs : q = Controller(multidrop, addr)

\* query, lines 63-75: the command is composed and written
QWrite ==
    /\ script = "console"
    /\ pc = "q_write"
    /\ tries' = tries + 1
    /\ LET bytes == Compose(q.multidrop, q.addr, q.cmd, q.val)
       IN  q' = [q EXCEPT !.wrote = bytes,
                          !.first = IF tries = 0 THEN bytes ELSE @,
                          !.pending = @ + 1]
    /\ pc' = "q_read"
    /\ UNCHANGED <<script, program, state_num, state_curr, now, time_start,
                   time_state, data, samples, io>>

\* query, lines 78-99: one reply is read; the call returns, raises or goes
\* round again.  The constructor's exception ends the console; a method's is
\* caught by the console, which disconnects.  pump_speed() without speed
\* returns bool() of what query returned.
QRead ==
    /\ script = "console"
    /\ pc = "q_read"
    /\ \E raw \in RampReplies :
          LET o == QueryAttempt(q.cmd, q.persist, raw)
              seen == [q EXCEPT
                         !.pending = @ - 1,
                         !.se_acked = @ \/ (q.cmd = SE /\ Acknowledged(raw))]
          IN  /\ o.out = "retry" => tries < MaxTries
              /\ CASE o.out = "retry" ->
                        /\ q' = seen
                        /\ pc' = RetryAt
                        /\ UNCHANGED tries
                   [] o.out = "raise" ->
                        /\ q' = [seen EXCEPT !.raised = "IndexError"]
                        /\ pc' = IF q.method = "__init__" THEN "failed"
                                                          ELSE "disconnected"
                        /\ tries' = 0
                   [] OTHER ->
                        /\ q' = [seen EXCEPT
                                   !.built = TRUE,
                                   !.result = IF q.cmd = RM
                                                 THEN BoolVal(Truthy(o.val))
                                                 ELSE o.val]
                        /\ pc' = "ready"
                        /\ tries' = 0
    /\ UNCHANGED <<script, program, state_num, state_curr, now, time_start,
                   time_state, data, samples, io>>

\* pump_speed(spd, **kwargs): the speed is read when none is given, and set
\* to the converted value when one is
PumpSpeed ==
    /\ script = "console"
    /\ pc = "ready"
    /\ \E persist \in BOOLEAN :
          \/ q' = [q EXCEPT !.method = "pump_speed", !.cmd = RM, !.val = None,
                            !.persist = persist, !.arg = 0, !.raised = ""]
          \/ \E spd \in Speeds :
                q' = [q EXCEPT !.method = "pump_speed", !.cmd = SM,
                               !.val = IntText(PumpValue(spd)),
                               !.persist = persist, !.arg = spd, !.raised = ""]
    /\ pc' = "q_write"
    /\ UNCHANGED <<script, program, state_num, state_curr, now, time_start,
                   time_state, tries, data, samples, io>>

\* The exception temp_get_act(ext) ends with.  Without ext it calls
\* self.probe_ext() without the status that method requires (TypeError);
\* with ext it evaluates the bare name cal_int or cal_ext, which is no local
\* or global name (NameError), before any command is sent.
TempGetActRaises(ext) == IF ext = "None" THEN "TypeError" ELSE "NameError"

\* temp_get_act(ext, **kwargs), and the console's handler
TempGetAct ==
    /\ script = "console"
    /\ pc = "ready"
    /\ \E ext \in {"None", "False", "True"} :
          q' = [q EXCEPT !.method = "temp_get_act", !.result = NoVal,
                         !.raised = TempGetActRaises(ext)]
    /\ pc' = "disconnected"
    /\ UNCHANGED <<script, program, state_num, state_curr, now, time_start,
                   time_state, tries, data, samples, io>>

\* bath.cal_int.reset(slope, xcept) or bath.cal_ext.reset(slope, xcept)
CalReset ==
    /\ script = "console"
    /\ pc = "ready"
    /\ \E slope \in Slopes, xcept \in Xcepts :
          \/ q' = [q EXCEPT !.method = "reset",
                            !.cal_int = Reset(@, slope, xcept)]
          \/ q' = [q EXCEPT !.method = "reset",
                            !.cal_ext = Reset(@, slope, xcept)]
    /\ UNCHANGED <<script, pc, program, state_num, state_curr, now, time_start,
                   time_state, tries, data, samples, io>>

\* cal.act2ref(cal.ref2act(x)) for one of the two calibrations
CalRoundTrip ==
    /\ script = "console"
    /\ pc = "ready"
    /\ \E cal \in {q.cal_int, q.cal_ext}, x \in Temps :
          IF cal.slope = 0
              THEN /\ q' = [q EXCEPT !.method = "act2ref", !.arg = x,
                                     !.raised = "ZeroDivisionError"]
                   /\ pc' = "disconnected"
              ELSE /\ q' = [q EXCEPT !.method = "act2ref", !.arg = x,
                                     !.back = Act2Ref(cal, Ref2Act(cal, x))]
                   /\ pc' = "ready"
    /\ UNCHANGED <<script, program, state_num, state_curr, now, time_start,
                   time_state, tries, data, samples, io>>

NextConsole ==
    \/ QWrite
    \/ QRead
    \/ PumpSpeed
    \/ TempGetAct
    \/ CalReset
    \/ CalRoundTrip

SpecConsole == InitConsole /\ [][NextConsole]_vars

----------------------------------------------------------------------------
(* Claims about the driver's methods *)

\* C11: the constructor sends SE1 in persist mode before any other command,
\* and construction completes only after a reply satisfying the
\* acknowledgment rule has been received, whatever refusals or timeouts come
\* before it; no such reply makes construction fail.
C11_ConstructedAfterEchoAck ==
    /\ ~q.built => q.cmd = SE /\ q.val = <<"1">> /\ q.persist
    /\ q.built => q.se_acked
    /\ pc # "failed"

\* C12: pump_speed(f) transmits SM with the integer percent
\* 100*round(20*clamp(f,0,1))/20, a multiple of 5 in 0..100: 35 for f = 0.37,
\* 100 for every f above 1 and 0 for every f below 0.
C12_PumpPercentClamped ==
    (q.method = "pump_speed" /\ q.cmd = SM) =>
        LET f == IF q.arg > 1000 THEN 1000 ELSE IF q.arg < 0 THEN 0 ELSE q.arg
            sent == IntOf(q.val)
        IN  /\ sent = (100 * Round(20 * f, 1000)) \div 20
            /\ sent % 5 = 0
            /\ sent \in 0..100
            /\ q.arg = 370 => sent = 35
            /\ q.arg > 1000 => sent = 100
            /\ q.arg < 0 => sent = 0

\* C16: temp_get_act without probe argument queries the probe selection and
\* returns the calibrated reading of the selected channel, and with an
\* explicit probe returns the calibrated reading of that channel: the call
\* returns a value and does not fail.
C16_TempGetActReturns ==
    q.method = "temp_get_act" => q.raised = "" /\ q.result # NoVal

\* C17: every command query writes is '@' and the address zero-padded to 3
\* digits if and only if multidrop is enabled, then the 2-letter verb, then
\* the value as decimal text if and only if a value was given, then one
\* carriage return; the bytes of a retry are those of the first attempt.
C17_CommandBytes ==
    pc = "q_read" =>
        LET w == q.wrote
            n == Len(w)
            head == IF q.multidrop THEN 4 ELSE 0
        IN  /\ n >= head + 3
            /\ w[n] = CR
            /\ \A i \in 1..(n - 1) : w[i] # CR
            /\ q.multidrop =>
                  /\ w[1] = "@"
                  /\ \A i \in 2..4 : w[i] \in AllDigits
                  /\ IntOf(SubSeq(w, 2, 4)) = q.addr
            /\ ~q.multidrop => w[1] # "@"
            /\ SubSeq(w, head + 1, head + 2) = q.cmd
            /\ q.val = None => n = head + 3
            /\ q.val # None => SubSeq(w, head + 3, n - 1) = q.val
            /\ w = q.first

\* the second attempt of a pump_speed(0.37, persist=True) on a multidrop
\* line, address 12
C17_Witness ==
    /\ pc = "q_read"
    /\ tries = 2
    /\ q.wrote = <<"@", "0", "1", "2", "S", "M", "3", "5", CR>>

\* C18: for a calibration with slope s # 0 and intercept b, and every x for
\* which the division is exact, act2ref(ref2act(x)) = x; so it is after
\* reset(s, b) has replaced both fields.
C18_CalibrationRoundTrip ==
    (q.method = "act2ref" /\ q.raised = "") => q.back = <<q.arg, 1>>

\* a round trip of 2 after both calibrations were reset to slopes other than
\* 1 and an intercept other than 0
C18_Witness ==
    /\ q.method = "act2ref"
    /\ q.raised = ""
    /\ q.cal_int = TCal(3, 1)
    /\ q.cal_ext = TCal(-2, 1)
    /\ q.arg = 2
    /\ q.back = <<2, 1>>

\* C20: the driver has at most one command outstanding: every write of query
\* is followed by exactly one read before the next write, across the retries
\* of a query and across consecutive queries.
C20_OneOutstanding ==
    /\ q.pending \in {0, 1}
    /\ pc = "q_read" <=> q.pending = 1

\* the retry of the second query of a session has been written and not read
C20_Witness ==
    /\ pc = "q_read"
    /\ q.method = "pump_speed"
    /\ tries = 2
    /\ q.pending = 1

----------------------------------------------------------------------------
(* The log of vwrpolysci_cal_sweep.py: the header written when the table    *)
(* has been read, and one row of the polling loop, for tables with any      *)
(* column names.  Values are whole numbers here, the clock included.        *)

\* the column names of the model, in the order Python's sorted() puts them
NameOrder ==
    <<"clock", "notes", "temp_ext", "temp_int", "temp_set", "time", "watch">>

\* the names of the measured fields, as listed in the source
Fixed == <<"clock", "watch", "temp_int", "temp_ext">>

Count(list, k) == Cardinality({i \in 1..Len(list) : list[i] = k})

RECURSIVE Repeat(_, _)
Repeat(k, n) == IF n = 0 THEN <<>> ELSE <<k>> \o Repeat(k, n - 1)

\* sorted(list) for a list of column names: every item of the list is kept
RECURSIVE SortedFrom(_, _)
SortedFrom(list, i) ==
    IF i > Len(NameOrder) THEN <<>>
    ELSE Repeat(NameOrder[i], Count(list, NameOrder[i]))
             \o SortedFrom(list, i + 1)

Sorted(list) == SortedFrom(list, 1)

\* the keys of a dict as a list
RECURSIVE Keys(_)
Keys(S) ==
    IF S = {} THEN <<>>
    ELSE LET k == CHOOSE x \in S : TRUE IN <<k>> \o Keys(S \ {k})

\* header = sorted([...] + list(states.head()))
Header(columns) == Sorted(Fixed \o columns)

\* [str(data[key]) for key in sorted(data.keys())]
RowLine(d) ==
    LET keys == Sorted(Keys(DOMAIN d))
    IN  [i \in 1..Len(keys) |-> IntText(d[keys[i]])]

\* the column lists of the tables: temp_set and time, and any of a free
\* column and two columns named as measured fields are
ColumnLists ==
    { <<"temp_set", "time">> \o a \o b \o c :
        a \in {<<>>, <<"notes">>},
        b \in {<<>>, <<"watch">>},
        c \in {<<>>, <<"temp_int">>} }

\* the value every column of the one row of a table holds
CellValues == {60, 80}
\* what is measured for a row
Measurements ==
    [clock : {7}, watch : {0, 1}, temp_int : {20, 21}, temp_ext : {20, 22}]

\* the log under test: the column list of the table, the header written,
\* the measured dict of the row and the line written for it
NoLog == [columns |-> <<>>, header |-> <<>>, measured |-> <<>>, line |-> <<>>]

InitLog ==
    /\ script = "log"
    /\ pc = "header"
    /\ \E columns \in ColumnLists, v \in CellValues :
          /\ q = [NoLog EXCEPT !.columns = columns]
          /\ program = <<[k \in {columns[i] : i \in 1..Len(columns)} |-> v]>>
    /\ state_num = 0
    /\ state_curr = program[1]
    /\ now = 0
    /\ time_start = 0
    /\ time_state = 0
    /\ tries = 0
    /\ data = <<>>
    /\ samples = <<>>
    /\ io = NoIo

\* lines 62-70: the header is written
WriteHeader ==
    /\ script = "log"
    /\ pc = "header"
    /\ q' = [q EXCEPT !.header = Header(q.columns)]
    /\ pc' = "row"
    /\ UNCHANGED <<script, program, state_num, state_curr, now, time_start,
                   time_state, tries, data, samples, io>>

\* lines 110-121: a dict of measured values, updated with the row of the
\* table and written
WriteRow ==
    /\ script = "log"
    /\ pc = "row"
    /\ \E measured \in Measurements :
          /\ data' = Update(measured, state_curr)
          /\ q' = [q EXCEPT !.measured = measured, !.line = RowLine(data')]
          /\ samples' = Append(samples, data')
    /\ pc' = "logged"
    /\ UNCHANGED <<script, program, state_num, state_curr, now, time_start,
                   time_state, tries, io>>

NextLog ==
    \/ WriteHeader
    \/ WriteRow

SpecLog == InitLog /\ [][NextLog]_vars

\* the place of a name in the sorted order
Rank(k) == CHOOSE i \in 1..Len(NameOrder) : NameOrder[i] = k

\* C15: for every set of program-table column names, those holding time or
\* the name of a measured field included, the header is the sorted union of
\* the fixed names and the program columns with no name twice, and in every
\* row the value under a fixed name is the measured one; for the columns
\* temp_set, time, notes the header is clock, notes, temp_ext, temp_int,
\* temp_set, time, watch.
C15_HeaderIsSortedUnion ==
    /\ pc \in {"row", "logged"} =>
          LET h == q.header
          IN  /\ {h[i] : i \in 1..Len(h)}
                    = {Fixed[i] : i \in 1..4} \cup DOMAIN state_curr
              /\ \A i, j \in 1..Len(h) : i < j => Rank(h[i]) < Rank(h[j])
              /\ q.columns = <<"temp_set", "time", "notes">> =>
                    h = <<"clock", "notes", "temp_ext", "temp_int",
                          "temp_set", "time", "watch">>
    /\ pc = "logged" =>
          /\ Len(q.line) = Len(q.header)
          /\ \A i \in 1..Len(q.header) :
                q.header[i] \in DOMAIN q.measured =>
                    q.line[i] = IntText(q.measured[q.header[i]])

----------------------------------------------------------------------------
(* The polling loop of vwrpolysci_cal_sweep.py on a serial line with a      *)
(* device at its end.  The device answers every command it receives, in     *)
(* order, sooner or later; its answers wait in the input buffer of the port *)
(* until read_until takes them.  query writes without emptying that buffer, *)
(* and read_until hands back the oldest answer in it, or nothing when the   *)
(* deadline passes with the buffer empty.                                   *)

\* most commands written to the line
MaxSent == 4

\* what the device answers to a temperature read
Answer(cmd) ==
    IF cmd = RT THEN <<"2", "0", "!", CR>> ELSE <<"3", "0", "!", CR>>

\* a transmission: the n-th command written, and its verb
Sent(n, cmd) == [n |-> n, cmd |-> cmd]
NoSent == Sent(0, <<>>)

\* The line:
\*   sent      number of commands written so far
\*   device    the transmissions the device has not answered yet
\*   buffer    the answers in the input buffer, each with the transmission
\*             it answers
\*   asked     the transmission of the query in progress
\*   int_asked, ext_asked   the transmissions of the two reads of the attempt
\*   int_from, ext_from     the transmissions the values in the dict answered
NoLine ==
    [sent |-> 0, device |-> <<>>, buffer |-> <<>>, asked |-> NoSent,
     int_asked |-> NoSent, ext_asked |-> NoSent,
     int_from |-> NoSent, ext_from |-> NoSent]

InitLine ==
    /\ script = "line"
    /\ pc = "poll_stamp"
    /\ program = <<Row(60, 1, "a")>>
    /\ state_num = 0
    /\ state_curr = program[1]
    /\ now = 0
    /\ time_start = 0
    /\ time_state = 0
    /\ tries = 0
    /\ data = <<>>
    /\ samples = <<>>
    /\ io = NoIo
    /\ q = NoLine

\* the first two items of the dict display of an attempt
LineStamp ==
    /\ script = "line"
    /\ pc = "poll_stamp"
    /\ Len(samples) < MaxSamples
    /\ data' = [clock |-> Strftime(now),
                watch |-> Watch(now, time_start, time_state)]
    /\ pc' = "write_int"
    /\ UNCHANGED <<script, program, state_num, state_curr, now, time_start,
                   time_state, tries, samples, io, q>>

\* query, lines 63-75, for temp_get_int() and temp_get_ext(): the command is
\* written; the input buffer is left as it is
LineWrite ==
    /\ script = "line"
    /\ pc \in {"write_int", "write_ext"}
    /\ q.sent < MaxSent
    /\ LET cmd == IF pc = "write_int" THEN RT ELSE RR
           this == Sent(q.sent + 1, cmd)
       IN  q' = [q EXCEPT !.sent = @ + 1,
                          !.device = Append(@, this),
                          !.asked = this]
    /\ pc' = IF pc = "write_int" THEN "read_int" ELSE "read_ext"
    /\ UNCHANGED <<script, program, state_num, state_curr, now, time_start,
                   time_state, tries, data, samples, io>>

\* the device answers the oldest command it holds, and the answer reaches
\* the input buffer of the port
Deliver ==
    /\ script = "line"
    /\ q.device # <<>>
    /\ LET this == Head(q.device)
       IN  q' = [q EXCEPT
                   !.device = Tail(@),
                   !.buffer = Append(@, [for |-> this,
                                         text |-> Answer(this.cmd)])]
    /\ UNCHANGED <<script, pc, program, state_num, state_curr, now,
                   time_start, time_state, tries, data, samples, io>>

\* query, lines 78-99, and the handler of the polling loop: read_until hands
\* back the oldest answer of the buffer, or nothing; the value returned goes
\* into the dict, an exception starts the attempt again
LineRead ==
    /\ script = "line"
    /\ pc \in {"read_int", "read_ext"}
    /\ LET int == pc = "read_int"
           empty == q.buffer = <<>>
           raw == IF empty THEN <<>> ELSE Head(q.buffer).text
           from == IF empty THEN NoSent ELSE Head(q.buffer).for
           o == QueryAttempt(q.asked.cmd, FALSE, raw)
           rest == [q EXCEPT !.buffer = IF empty THEN @ ELSE Tail(@)]
       IN  IF o.out = "return"
              THEN /\ data' = Update(data, [k \in {IF int THEN "temp_int"
                                                         ELSE "temp_ext"}
                                               |-> o.val])
                   /\ q' = IF int
                             THEN [rest EXCEPT !.int_asked = q.asked,
                                               !.int_from = from]
                             ELSE [rest EXCEPT !.ext_asked = q.asked,
                                               !.ext_from = from]
                   /\ pc' = IF int THEN "write_ext" ELSE "emit"
              ELSE /\ data' = <<>>
                   /\ q' = rest
                   /\ pc' = "poll_stamp"
    /\ UNCHANGED <<script, program, state_num, state_curr, now, time_start,
                   time_state, tries, samples, io>>

\* data.update(state_curr) and the row written to the log
LineEmit ==
    /\ script = "line"
    /\ pc = "emit"
    /\ data' = Update(data, state_curr)
    /\ samples' = Append(samples, data')
    /\ pc' = "poll_stamp"
    /\ UNCHANGED <<script, program, state_num, state_curr, now, time_start,
                   time_state, tries, io, q>>

NextLine ==
    \/ LineStamp
    \/ LineWrite
    \/ Deliver
    \/ LineRead
    \/ LineEmit

SpecLine == InitLine /\ [][NextLine]_vars

\* C21: the value a query returns is decoded from the reply the device
\* produced for that same transmission: a reply that arrives after its read
\* timed out is never taken as the reply to a later command, so the sample
\* about to be logged holds as temp_int the answer to the RT of its attempt
\* and as temp_ext the answer to the RR of its attempt.
C21_ReplyAnswersItsCommand ==
    pc = "emit" =>
        /\ q.int_from = q.int_asked
        /\ q.ext_from = q.ext_asked
        /\ q.int_from.cmd = RT
        /\ q.ext_from.cmd = RR

====
